---- MODULE Spec2Model ----
(***************************************************************************)
(* Model of the CARLA simulation dashboard:                                *)
(*   - collision-risk-backend/index.js : the in-memory record store behind *)
(*     GET / POST / DELETE /api/simulations;                               *)
(*   - app/components/simulations/simulations.ts : the polling dashboard   *)
(*     component CarlaSimulationDashboardComponent.                        *)
(*                                                                         *)
(* A JSON object is a function from its keys to its values (an absent key  *)
(* is absent from the DOMAIN).  A JSON text is a sequence of members, each *)
(* holding a key and the text of its value; JSONStringify and JSONParse    *)
(* convert between the two.  Counts are integers; the statistics (mean,    *)
(* variance, avgFPS) are real numbers, kept as exact rationals [n, d].     *)
(***************************************************************************)
EXTENDS Integers, Sequences, FiniteSets, TLC

VARIABLES
  simulations,   \* index.js: let simulations = [] (array of JSON strings)
  resp,          \* the response to the last request of the API client
  firstSeen,     \* history: keys in the order they first reached the store since the last DELETE
  postedOk,      \* history: keys of the POSTs answered 200 since the last DELETE
  clearedKeys,   \* history: keys that the last DELETE removed from the store
  dash,          \* simulations.ts: the fields of the dashboard component
  timers,        \* the interval timers that are active in the browser
  nextTimer,     \* the id that the next setInterval returns
  inflight,      \* the HTTP GETs issued by loadData and not yet delivered, oldest first
  lifecycle,     \* where the component is in its life: "created", "inited", "destroyed"
  call           \* the last call of a value-returning method of the component

vars == <<simulations, resp, firstSeen, postedOk, clearedKeys,
          dash, timers, nextTimer, inflight, lifecycle, call>>

storeVars == <<simulations, resp, firstSeen, postedOk, clearedKeys>>
dashVars == <<dash, timers, nextTimer, inflight, lifecycle, call>>

(***************************************************************************)
(* Bounds of the model.                                                    *)
(***************************************************************************)
MaxNum == 4        \* numbers that occur in JSON texts lie in -MaxNum..MaxNum
MaxInFlight == 2   \* at most this many fetches are in flight at once
MaxEnvs == 2       \* component.environments holds at most this many records when set directly
MaxCount == 8      \* the counts passed to getSafetyScore lie in 0..MaxCount
MaxRate == 110     \* the rates passed to calculateGradeLevel lie in (100 - MaxRate)..MaxRate
MaxTimers == 3     \* the interval timers one component starts lie in 1..MaxTimers

(***************************************************************************)
(* Numbers of the dashboard.  A real is [n, d, root]: the rational n/d, or *)
(* its square root when root is TRUE; d = 0 is NaN.  Reals are kept in a   *)
(* canonical form, so that two reals are equal iff their records are.      *)
(***************************************************************************)
Abs(x) == IF x < 0 THEN 0 - x ELSE x

RECURSIVE GCD(_, _)
GCD(a, b) == IF b = 0 THEN a ELSE GCD(b, a % b)

NaN == [n |-> 0, d |-> 0, root |-> FALSE]

\* The rational n/d, d # 0, in lowest terms with a positive denominator.
Rat(n, d) ==
  LET g == GCD(Abs(n), Abs(d))
      s == IF d < 0 THEN 0 - 1 ELSE 1
  IN  [n |-> (s * n) \div g, d |-> (s * d) \div g, root |-> FALSE]

Num(i) == Rat(i, 1)
Zero == Num(0)

RAdd(p, q) == Rat(p.n * q.d + q.n * p.d, p.d * q.d)
RSub(p, q) == Rat(p.n * q.d - q.n * p.d, p.d * q.d)
RMul(p, q) == Rat(p.n * q.n, p.d * q.d)
RDiv(p, q) == Rat(p.n * q.d, p.d * q.n)
RAbs(p) == Rat(Abs(p.n), p.d)
RPos(p) == p.n > 0

ISqrt(n) == CHOOSE r \in 0..n : r * r <= n /\ (r + 1) * (r + 1) > n

\* A square root that is defined above zero only: NaN at 0 and below.
SqrtPositive(q) ==
  IF q.n <= 0 THEN NaN
  ELSE LET a == ISqrt(q.n)
           b == ISqrt(q.d)
       IN  IF a * a = q.n /\ b * b = q.d THEN Rat(a, b)
           ELSE [n |-> q.n, d |-> q.d, root |-> TRUE]

\* Math.sqrt of a rational: NaN below zero.
Sqrt(q) ==
  IF q.n < 0 THEN NaN
  ELSE LET a == ISqrt(q.n)
           b == ISqrt(q.d)
       IN  IF a * a = q.n /\ b * b = q.d THEN Rat(a, b)
           ELSE [n |-> q.n, d |-> q.d, root |-> TRUE]

\* std / m, not scaled to a percentage.
PercentFraction(std, m) ==
  IF std.d = 0 THEN NaN
  ELSE IF std.root THEN Sqrt(RDiv([std EXCEPT !.root = FALSE], RMul(m, m)))
  ELSE RDiv(std, m)

\* (std / m) * 100 for a real std and a rational m > 0.
Percent(std, m) ==
  IF std.d = 0 THEN NaN
  ELSE IF std.root THEN Sqrt(RDiv(RMul([std EXCEPT !.root = FALSE], Num(10000)), RMul(m, m)))
  ELSE RMul(RDiv(std, m), Num(100))

(***************************************************************************)
(* JSON values.                                                            *)
(***************************************************************************)
Empty == [k \in {} |-> 0]

Has(obj, k) == k \in DOMAIN obj

Range(s) == {s[i] : i \in DOMAIN s}

\* The keys of the records, in the order in which a text lists them.
KeyOrder ==
  <<"name", "collisions", "safeRuns", "gradeLevel", "totalFrames", "avgFPS",
    "speedStats", "steeringStats", "processingStats",
    "mean", "variance", "vision", "audio", "llm", "total">>

StringKeys == {"name", "gradeLevel"}
RealKeys == {"avgFPS", "mean", "variance"}
ObjectKeys == {"speedStats", "steeringStats", "processingStats",
               "vision", "audio", "llm", "total"}

KindOf(k) ==
  IF k \in StringKeys THEN "str"
  ELSE IF k \in ObjectKeys THEN "obj"
  ELSE IF k \in RealKeys THEN "real"
  ELSE "num"

NumRange == (0 - MaxNum)..MaxNum

ParseNum(text) == CHOOSE n \in NumRange : ToString(n) = text

\* The reals that occur in JSON texts: the multiples of 1/2 in the range.
RealRange == {Rat(k, 2) : k \in (0 - 2 * MaxNum)..(2 * MaxNum)}

\* The decimal text of a multiple of 1/2: "3", "1.5", "-0.5".
RealText(q) ==
  IF q.d = 1 THEN ToString(q.n)
  ELSE (IF q.n < 0 THEN "-" ELSE "") \o ToString(Abs(q.n) \div 2) \o ".5"

ParseReal(text) == CHOOSE q \in RealRange : RealText(q) = text

\* A JSON.stringify that loses the members of nested objects.
JSONStringifyShallow(obj) ==
  LET keys == SelectSeq(KeyOrder, LAMBDA k : k \in DOMAIN obj)
  IN  [i \in 1..Len(keys) |->
         LET k == keys[i]
         IN  [key     |-> k,
              kind    |-> KindOf(k),
              text    |-> IF KindOf(k) = "num" THEN ToString(obj[k])
                          ELSE IF KindOf(k) = "real" THEN RealText(obj[k])
                          ELSE IF KindOf(k) = "str" THEN obj[k] ELSE "",
              members |-> <<>>]]

\* JSON.stringify of an object: one member per own key, nested objects included.
RECURSIVE JSONStringify(_)
JSONStringify(obj) ==
  LET keys == SelectSeq(KeyOrder, LAMBDA k : k \in DOMAIN obj)
  IN  [i \in 1..Len(keys) |->
         LET k == keys[i]
         IN  [key     |-> k,
              kind    |-> KindOf(k),
              text    |-> IF KindOf(k) = "num" THEN ToString(obj[k])
                          ELSE IF KindOf(k) = "real" THEN RealText(obj[k])
                          ELSE IF KindOf(k) = "str" THEN obj[k] ELSE "",
              members |-> IF KindOf(k) = "obj" THEN JSONStringify(obj[k]) ELSE <<>>]]

\* JSON.parse of the text of an object.
RECURSIVE JSONParse(_)
JSONParse(text) ==
  [k \in {text[i].key : i \in DOMAIN text} |->
     LET m == CHOOSE m \in Range(text) : m.key = k
     IN  IF m.kind = "num" THEN ParseNum(m.text)
         ELSE IF m.kind = "real" THEN ParseReal(m.text)
         ELSE IF m.kind = "str" THEN m.text
         ELSE JSONParse(m.members)]

(***************************************************************************)
(* The record store: collision-risk-backend/index.js                       *)
(***************************************************************************)
\* The key under which the store files a record: its name, or nothing.
KeyOf(obj) == IF Has(obj, "name") THEN {obj.name} ELSE {}

\* parsed.name === newSim.name
SameName(parsed, newSim) == KeyOf(parsed) = KeyOf(newSim)

\* A findIndex that never finds the name.
FindIndexNever(sims, newSim) == 0 - 1

\* simulations.findIndex(...): the 0-based index of the first match, or -1.
FindIndex(sims, newSim) ==
  LET hits == {i \in 1..Len(sims) : SameName(JSONParse(sims[i]), newSim)}
  IN  IF hits = {} THEN 0 - 1
      ELSE (CHOOSE i \in hits : \A j \in hits : i <= j) - 1

\* What GET /api/simulations sends, as the client reads it.
GetResponse(sims) ==
  [i \in 1..Len(sims) |-> JSONParse(JSONStringify(JSONParse(sims[i])))]

NoResp == [op |-> "none", status |-> 0, message |-> "", data |-> <<>>]

\* app.get('/api/simulations') answering the API client.
Get ==
  /\ resp' = [op |-> "GET", status |-> 200, message |-> "",
              data |-> GetResponse(simulations)]
  /\ UNCHANGED <<simulations, firstSeen, postedOk, clearedKeys>>
  /\ UNCHANGED dashVars

\* A DELETE that answers but leaves the array as it is.
DeleteNothing ==
  /\ simulations' = simulations
  /\ resp' = [op |-> "DELETE", status |-> 200,
              message |-> "All simulations cleared", data |-> <<>>]
  /\ firstSeen' = <<>>
  /\ postedOk' = {}
  /\ clearedKeys' = {KeyOf(JSONParse(simulations[i])) : i \in 1..Len(simulations)}
  /\ UNCHANGED dashVars

\* app.delete('/api/simulations')
Delete ==
  /\ simulations' = <<>>
  /\ resp' = [op |-> "DELETE", status |-> 200,
              message |-> "All simulations cleared", data |-> <<>>]
  /\ firstSeen' = <<>>
  /\ postedOk' = {}
  /\ clearedKeys' = {KeyOf(JSONParse(simulations[i])) : i \in 1..Len(simulations)}
  /\ UNCHANGED dashVars

\* A POST whose update removes the old record and pushes the new one at the end.
PostMoveToEnd(newSim) ==
  LET existingIndex == FindIndex(simulations, newSim)
      stringToStore == JSONStringify(newSim)
      others == [j \in 1..(Len(simulations) - 1) |->
                   IF j < existingIndex + 1 THEN simulations[j] ELSE simulations[j + 1]]
  IN
  IF ~Has(newSim, "speedStats")
  THEN /\ resp' = [op |-> "POST", status |-> 500, message |-> "TypeError", data |-> <<>>]
       /\ UNCHANGED <<simulations, firstSeen, postedOk, clearedKeys>>
       /\ UNCHANGED dashVars
  ELSE /\ IF existingIndex >= 0
          THEN /\ simulations' = Append(others, stringToStore)
               /\ resp' = [op |-> "POST", status |-> 200, message |-> "Simulation updated",
                           data |-> <<JSONParse(stringToStore)>>]
          ELSE /\ simulations' = Append(simulations, stringToStore)
               /\ resp' = [op |-> "POST", status |-> 200, message |-> "Simulation added",
                           data |-> <<newSim>>]
       /\ firstSeen' = IF KeyOf(newSim) \in Range(firstSeen) THEN firstSeen
                       ELSE Append(firstSeen, KeyOf(newSim))
       /\ postedOk' = postedOk \cup {KeyOf(newSim)}
       /\ UNCHANGED clearedKeys
       /\ UNCHANGED dashVars

\* app.post('/api/simulations') with req.body = newSim
Post(newSim) ==
  LET existingIndex == FindIndex(simulations, newSim)
      simulationData == newSim
      stringToStore == JSONStringify(simulationData)
  IN
  IF ~Has(simulationData, "speedStats")
  THEN \* Object.keys(simulationData.speedStats) raises a TypeError: Express answers 500
       /\ resp' = [op |-> "POST", status |-> 500, message |-> "TypeError", data |-> <<>>]
       /\ UNCHANGED <<simulations, firstSeen, postedOk, clearedKeys>>
       /\ UNCHANGED dashVars
  ELSE /\ IF existingIndex >= 0
          THEN /\ simulations' = [simulations EXCEPT ![existingIndex + 1] = stringToStore]
               /\ resp' = [op |-> "POST", status |-> 200, message |-> "Simulation updated",
                           data |-> <<JSONParse(stringToStore)>>]
          ELSE /\ simulations' = Append(simulations, stringToStore)
               /\ resp' = [op |-> "POST", status |-> 200, message |-> "Simulation added",
                           data |-> <<simulationData>>]
       /\ firstSeen' = IF KeyOf(newSim) \in Range(firstSeen) THEN firstSeen
                       ELSE Append(firstSeen, KeyOf(newSim))
       /\ postedOk' = postedOk \cup {KeyOf(newSim)}
       /\ UNCHANGED clearedKeys
       /\ UNCHANGED dashVars

\* The files the POST handler writes with fs.writeFileSync outside any
\* try / catch, in the order of the writes.
UnguardedFiles ==
  {"post-debug.json", "before-store.json", "string-to-store.json", "after-store.json"}

\* app.post('/api/simulations') with req.body = newSim when the write of file
\* raises (the file is not writable, the disk is full): the handler ends
\* there and Express answers 500.
PostWriteFails(newSim, file) ==
  LET existingIndex == FindIndex(simulations, newSim)
      simulationData == newSim
      stringToStore == JSONStringify(simulationData)
  IN
  /\ file \in UnguardedFiles
  \* the write is reached: before-store.json comes after
  \* Object.keys(simulationData.speedStats), string-to-store.json is written
  \* in the add branch only
  /\ file # "post-debug.json" => Has(simulationData, "speedStats")
  /\ file = "string-to-store.json" => existingIndex < 0
  /\ resp' = [op |-> "POST", status |-> 500, message |-> "Error: " \o file, data |-> <<>>]
  /\ IF file = "after-store.json"
     THEN \* the store step has run before the write
          /\ simulations' = IF existingIndex >= 0
                            THEN [simulations EXCEPT ![existingIndex + 1] = stringToStore]
                            ELSE Append(simulations, stringToStore)
          /\ firstSeen' = IF KeyOf(newSim) \in Range(firstSeen) THEN firstSeen
                          ELSE Append(firstSeen, KeyOf(newSim))
     ELSE UNCHANGED <<simulations, firstSeen>>
  /\ UNCHANGED <<postedOk, clearedKeys>>
  /\ UNCHANGED dashVars

\* Array.prototype.reduce, left to right.
RECURSIVE Reduce(_, _, _)
Reduce(f(_, _), arr, init) ==
  IF arr = <<>> THEN init
  ELSE Reduce(f, Tail(arr), f(init, Head(arr)))

\* env.<k> || 0 for a count, env.<k> || 0 for a real, env.<k> || dflt for a string
OrZero(obj, k) == IF Has(obj, k) THEN obj[k] ELSE 0
OrZeroReal(obj, k) == IF Has(obj, k) THEN obj[k] ELSE Zero
OrStr(obj, k, dflt) == IF Has(obj, k) /\ obj[k] # "" THEN obj[k] ELSE dflt

\* env.<s>?.<k> || 0
StatOrZero(env, s, k) == IF Has(env, s) THEN OrZeroReal(env[s], k) ELSE Zero

\* (env.processingStats || {}).<stage>?.mean || 0
ProcMean(env, stage) ==
  IF Has(env, "processingStats") THEN StatOrZero(env.processingStats, stage, "mean") ELSE Zero

(***************************************************************************)
(* The dashboard component: app/components/simulations/simulations.ts      *)
(***************************************************************************)
\* Array.prototype.map
Map(f(_), arr) == [i \in 1..Len(arr) |-> f(arr[i])]

\* Array.prototype.flatMap
RECURSIVE FlatMap(_, _)
FlatMap(f(_), arr) ==
  IF arr = <<>> THEN <<>> ELSE f(Head(arr)) \o FlatMap(f, Tail(arr))

\* An array element that is null or undefined, and the test for it: reading
\* a property of such an element raises a TypeError.
NullEnv == [null |-> TRUE]
IsNull(env) == "null" \in DOMAIN env
HasNull(envs) == \E i \in 1..Len(envs) : IsNull(envs[i])

\* The indices of an array, in order.
Indices(arr) == [i \in 1..Len(arr) |-> i]

\* A JavaScript value that is a number, a string, or a member of Object.prototype.
JSNumber(n) == [type |-> "number", value |-> n]
JSString(str) == [type |-> "string", value |-> str]

\* The members that every object literal inherits from Object.prototype.
ObjectPrototypeKeys ==
  {"constructor", "hasOwnProperty", "isPrototypeOf", "propertyIsEnumerable",
   "toLocaleString", "toString", "valueOf", "__proto__"}

\* typeof Object.prototype[k]
TypeOfInherited(k) == IF k = "__proto__" THEN "object" ELSE "function"

\* A gradeMap in which B+ is worth less than B.
GradeMapSwapped ==
  [g \in {"A+", "A", "B+", "B", "C+", "C", "D+", "D", "F"} |->
     CASE g = "A+" -> 97 [] g = "A" -> 92 [] g = "B+" -> 82 [] g = "B" -> 87
       [] g = "C+" -> 77 [] g = "C" -> 72 [] g = "D+" -> 67 [] g = "D" -> 62
       [] g = "F" -> 30]

GradeMap ==
  [g \in {"A+", "A", "B+", "B", "C+", "C", "D+", "D", "F"} |->
     CASE g = "A+" -> 97 [] g = "A" -> 92 [] g = "B+" -> 87 [] g = "B" -> 82
       [] g = "C+" -> 77 [] g = "C" -> 72 [] g = "D+" -> 67 [] g = "D" -> 62
       [] g = "F" -> 30]

\* getGradeValue(grade): gradeMap[grade] || 30.  The lookup finds the own
\* members of the literal and the members inherited from Object.prototype.
GetGradeValue(grade) ==
  IF grade \in DOMAIN GradeMap THEN JSNumber(GradeMap[grade])
  ELSE IF grade \in ObjectPrototypeKeys THEN [type |-> TypeOfInherited(grade), value |-> 0]
  ELSE JSNumber(30)

ColorMap ==
  [g \in {"A+", "A", "B+", "B", "C+", "C", "D+", "D", "F"} |->
     CASE g = "A+" -> "#22c55e" [] g = "A" -> "#34d399" [] g = "B+" -> "#60a5fa"
       [] g = "B" -> "#3b82f6" [] g = "C+" -> "#fbbf24" [] g = "C" -> "#f59e0b"
       [] g = "D+" -> "#f97316" [] g = "D" -> "#ef4444" [] g = "F" -> "#dc2626"]

\* getGradeColor(grade): colorMap[grade] || '#6b7280'
GetGradeColor(grade) ==
  IF grade \in DOMAIN ColorMap THEN JSString(ColorMap[grade])
  ELSE IF grade \in ObjectPrototypeKeys THEN [type |-> TypeOfInherited(grade), value |-> ""]
  ELSE JSString("#6b7280")

\* safetyRate >= t, for a rational safetyRate
AtLeast(safetyRate, t) == safetyRate.n >= t * safetyRate.d

\* A ladder whose thresholds are strict.
CalculateGradeLevelStrict(safetyRate) ==
  IF safetyRate.n > 95 * safetyRate.d THEN "A+"
  ELSE IF safetyRate.n > 90 * safetyRate.d THEN "A"
  ELSE IF safetyRate.n > 85 * safetyRate.d THEN "B+"
  ELSE IF safetyRate.n > 80 * safetyRate.d THEN "B"
  ELSE IF safetyRate.n > 75 * safetyRate.d THEN "C+"
  ELSE IF safetyRate.n > 70 * safetyRate.d THEN "C"
  ELSE IF safetyRate.n > 65 * safetyRate.d THEN "D+"
  ELSE IF safetyRate.n > 60 * safetyRate.d THEN "D"
  ELSE "F"

\* calculateGradeLevel(safetyRate)
CalculateGradeLevel(safetyRate) ==
  IF AtLeast(safetyRate, 95) THEN "A+"
  ELSE IF AtLeast(safetyRate, 90) THEN "A"
  ELSE IF AtLeast(safetyRate, 85) THEN "B+"
  ELSE IF AtLeast(safetyRate, 80) THEN "B"
  ELSE IF AtLeast(safetyRate, 75) THEN "C+"
  ELSE IF AtLeast(safetyRate, 70) THEN "C"
  ELSE IF AtLeast(safetyRate, 65) THEN "D+"
  ELSE IF AtLeast(safetyRate, 60) THEN "D"
  ELSE "F"

\* Math.round of a rational: the nearest integer, halves upwards.
Round(q) == (2 * q.n + q.d) \div (2 * q.d)

\* getSafetyScore(env): the division takes env.safeRuns as it is, so that an
\* absent safeRuns (undefined / total) gives NaN.
GetSafetyScore(env) ==
  LET total == OrZero(env, "collisions") + OrZero(env, "safeRuns")
  IN  IF total > 0
      THEN IF Has(env, "safeRuns")
           THEN Num(Round(RMul(Rat(env.safeRuns, total), Num(100))))
           ELSE NaN
      ELSE Zero

\* A name that is left blank when the record has none.
EnvNameBlank(env) == OrStr(env, "name", "")

\* env.name || 'Unknown'
EnvName(env) == OrStr(env, "name", "Unknown")

\* A prepareChartData that appends to the chart arrays instead of replacing them.
PrepareChartDataAppend(c) ==
  LET envs == c.environments
      bar(env) == [name |-> EnvName(env), value |-> OrZero(env, "safeRuns")]
  IN  [c EXCEPT !.barChartData = c.barChartData \o Map(bar, envs)]

\* prepareChartData(): the component c after the call
PrepareChartData(c) ==
  LET envs == c.environments
      bar(env) == [name |-> EnvName(env), value |-> OrZero(env, "safeRuns")]
      stacked(env) ==
        [name |-> EnvName(env),
         series |-> <<[name |-> "Collisions", value |-> OrZero(env, "collisions")],
                      [name |-> "Safe Runs", value |-> OrZero(env, "safeRuns")]>>]
      totalRuns(env) ==
        [name |-> EnvName(env),
         value |-> OrZero(env, "collisions") + OrZero(env, "safeRuns")]
      grade(env) ==
        [name |-> EnvName(env),
         value |-> GetGradeValue(OrStr(env, "gradeLevel", "F")),
         label |-> OrStr(env, "gradeLevel", "F")]
  IN  IF HasNull(envs) THEN c   \* env.name raises in the first map: nothing is assigned
      ELSE [c EXCEPT !.barChartData = Map(bar, envs),
                     !.envStackedData = Map(stacked, envs),
                     !.envTotalRunsData = Map(totalRuns, envs),
                     !.gradeLevelData = Map(grade, envs)]

\* envs.reduce((sum, env) => sum + (env.totalFrames || 0), 0)
TotalFrames(envs) ==
  LET addFrames(sum, env) == sum + OrZero(env, "totalFrames")
  IN  Reduce(addFrames, envs, 0)

\* A mean that gives every environment the same weight.
UnweightedMean(means, frames, totalFrames) ==
  LET add(sum, i) == RAdd(sum, means[i])
  IN  RDiv(Reduce(add, Indices(means), Zero), Num(Len(means)))

\* weightedSum / totalFrames, where weightedSum adds means[i] * frames[i]
WeightedMean(means, frames, totalFrames) ==
  LET add(sum, i) == RAdd(sum, RMul(means[i], Num(frames[i])))
  IN  RDiv(Reduce(add, Indices(means), Zero), Num(totalFrames))

\* The plain average of the variances.
AverageVariance(means, variances, frames, overallMean, totalFrames) ==
  LET add(sum, i) == RAdd(sum, variances[i])
  IN  RDiv(Reduce(add, Indices(variances), Zero), Num(Len(variances)))

\* The forEach that accumulates weight * (variance + (mean - overallMean)^2),
\* weight = frames / totalFrames.
PooledVariance(means, variances, frames, overallMean, totalFrames) ==
  LET Sq(x) == RMul(x, x)
      pool(acc, i) ==
        RAdd(acc, RMul(Rat(frames[i], totalFrames),
                       RAdd(variances[i], Sq(RSub(means[i], overallMean)))))
  IN  Reduce(pool, Indices(means), Zero)

\* calculateAdvancedStatistics(): the component c after the call
CalculateAdvancedStatistics(c) ==
  LET envs == c.environments
      frames(env) == OrZero(env, "totalFrames")
      speedMean(env) == StatOrZero(env, "speedStats", "mean")
      speedVar(env) == StatOrZero(env, "speedStats", "variance")
      steerMean(env) == StatOrZero(env, "steeringStats", "mean")
      steerVar(env) == StatOrZero(env, "steeringStats", "variance")
      avgFPS(env) == OrZeroReal(env, "avgFPS")
      avgSpeed(env) == [name |-> EnvName(env), value |-> speedMean(env)]
      speedVariance(env) == [name |-> EnvName(env), value |-> speedVar(env)]
      steeringVariance(env) == [name |-> EnvName(env), value |-> steerVar(env)]
      processing(env) ==
        <<[name |-> EnvName(env) \o " - Vision", value |-> ProcMean(env, "vision")],
          [name |-> EnvName(env) \o " - Audio", value |-> ProcMean(env, "audio")],
          [name |-> EnvName(env) \o " - LLM", value |-> ProcMean(env, "llm")],
          [name |-> EnvName(env) \o " - Total", value |-> ProcMean(env, "total")]>>
      fps(env) == [name |-> EnvName(env), value |-> avgFPS(env)]
      c1 == [c EXCEPT !.avgSpeedData = Map(avgSpeed, envs),
                      !.speedVarianceData = Map(speedVariance, envs),
                      !.steeringVarianceData = Map(steeringVariance, envs),
                      !.processingTimeData =
                          SelectSeq(FlatMap(processing, envs), LAMBDA item : RPos(item.value)),
                      !.fpsData = Map(fps, envs)]
      totalFrames == TotalFrames(envs)
      weights == Map(frames, envs)
      overallSpeedMean == WeightedMean(Map(speedMean, envs), weights, totalFrames)
      overallSteeringMean == WeightedMean(Map(steerMean, envs), weights, totalFrames)
      pooledSpeedVariance ==
        PooledVariance(Map(speedMean, envs), Map(speedVar, envs), weights,
                       overallSpeedMean, totalFrames)
      pooledSteeringVariance ==
        PooledVariance(Map(steerMean, envs), Map(steerVar, envs), weights,
                       overallSteeringMean, totalFrames)
      speedStats == [mean |-> overallSpeedMean,
                     std |-> Sqrt(pooledSpeedVariance),
                     variance |-> pooledSpeedVariance]
      steeringStats == [mean |-> overallSteeringMean,
                        std |-> Sqrt(pooledSteeringVariance),
                        variance |-> pooledSteeringVariance]
      procStats ==
        [key \in {"vision", "audio", "llm", "total"} |->
           LET procMean(env) == ProcMean(env, key)
           IN  [mean |-> WeightedMean(Map(procMean, envs), weights, totalFrames)]]
  IN  IF HasNull(envs) THEN c   \* env.name raises in the first map: nothing is assigned
      ELSE IF totalFrames > 0
      THEN [c1 EXCEPT
              !.overallSpeedStats = speedStats,
              !.overallSteeringStats = steeringStats,
              !.overallFPS = WeightedMean(Map(avgFPS, envs), weights, totalFrames),
              !.overallProcessingStats = procStats,
              !.overallSpeedCV =
                  IF RPos(speedStats.mean) THEN Percent(speedStats.std, speedStats.mean)
                  ELSE Zero,
              !.overallSteeringCV =
                  IF RPos(RAbs(steeringStats.mean))
                  THEN Percent(steeringStats.std, RAbs(steeringStats.mean))
                  ELSE Zero]
      ELSE c1

\* A rate that is 100 when nothing was simulated.
SafetyRateFullWhenEmpty(totalSafeRuns, totalSimulations) ==
  IF totalSimulations > 0
  THEN RMul(Rat(totalSafeRuns, totalSimulations), Num(100))
  ELSE Num(100)

\* totalSimulations > 0 ? (totalSafeRuns / totalSimulations) * 100 : 0
SafetyRate(totalSafeRuns, totalSimulations) ==
  IF totalSimulations > 0
  THEN RMul(Rat(totalSafeRuns, totalSimulations), Num(100))
  ELSE Zero

\* A calculateStatistics that counts a negative count as 0.
CalculateStatisticsClamped(c) ==
  LET envs == c.environments
      Clamp(x) == IF x < 0 THEN 0 ELSE x
      addCollisions(sum, env) == sum + Clamp(OrZero(env, "collisions"))
      addSafeRuns(sum, env) == sum + Clamp(OrZero(env, "safeRuns"))
      totalCollisions == Reduce(addCollisions, envs, 0)
      totalSafeRuns == Reduce(addSafeRuns, envs, 0)
      totalSimulations == totalCollisions + totalSafeRuns
      overallSafetyRate == SafetyRate(totalSafeRuns, totalSimulations)
  IN  CalculateAdvancedStatistics(
        [c EXCEPT !.totalCollisions = totalCollisions,
                  !.totalSafeRuns = totalSafeRuns,
                  !.totalSimulations = totalSimulations,
                  !.overallSafetyRate = overallSafetyRate,
                  !.overallGradeLevel = CalculateGradeLevel(overallSafetyRate)])

\* calculateStatistics(): the component c after the call
CalculateStatistics(c) ==
  LET envs == c.environments
      addCollisions(sum, env) == sum + OrZero(env, "collisions")
      addSafeRuns(sum, env) == sum + OrZero(env, "safeRuns")
      totalCollisions == Reduce(addCollisions, envs, 0)
      totalSafeRuns == Reduce(addSafeRuns, envs, 0)
      totalSimulations == totalCollisions + totalSafeRuns
      overallSafetyRate == SafetyRate(totalSafeRuns, totalSimulations)
  IN  IF HasNull(envs) THEN c   \* env.collisions raises in the first reduce
      ELSE CalculateAdvancedStatistics(
             [c EXCEPT !.totalCollisions = totalCollisions,
                       !.totalSafeRuns = totalSafeRuns,
                       !.totalSimulations = totalSimulations,
                       !.overallSafetyRate = overallSafetyRate,
                       !.overallGradeLevel = CalculateGradeLevel(overallSafetyRate)])

\* No method has been called yet.
NoCall == [fn |-> "none", arg |-> <<>>, result |-> <<>>]

\* The component as its field initialisers leave it.
NewComponent ==
  [refreshInterval |-> 0,   \* 0 stands for undefined / null: no timer handle
   environments |-> <<>>,
   totalSimulations |-> 0, totalCollisions |-> 0, totalSafeRuns |-> 0,
   overallSafetyRate |-> Zero,
   barChartData |-> <<>>, envStackedData |-> <<>>, envSafetyScoreData |-> <<>>,
   envTotalRunsData |-> <<>>, gradeLevelData |-> <<>>,
   overallGradeLevel |-> "N/A",
   avgSpeedData |-> <<>>, processingTimeData |-> <<>>, speedVarianceData |-> <<>>,
   steeringVarianceData |-> <<>>, fpsData |-> <<>>,
   overallSpeedStats |-> Empty, overallSteeringStats |-> Empty,
   overallProcessingStats |-> Empty,
   overallFPS |-> Zero, overallSpeedCV |-> Zero, overallSteeringCV |-> Zero]

\* One HTTP GET of loadData, as issued.
NewFetch == [phase |-> "sent", data |-> <<>>, isNull |-> FALSE, overtaken |-> FALSE]

\* loadData(): issues the GET and subscribes; the callbacks run on delivery.
LoadData(queue) == Append(queue, NewFetch)

\* Sequence s without its i-th element.
RemoveAt(s, i) == [j \in 1..(Len(s) - 1) |-> IF j < i THEN s[j] ELSE s[j + 1]]

\* ngOnInit()
NgOnInit ==
  /\ Len(inflight) < MaxInFlight
  /\ inflight' = LoadData(inflight)
  /\ dash' = [dash EXCEPT !.refreshInterval = nextTimer]
  /\ timers' = timers \cup {nextTimer}
  /\ nextTimer' = nextTimer + 1
  /\ lifecycle' = "inited"
  /\ UNCHANGED <<storeVars, call>>

\* An interval callback that does not call loadData.
TickNoLoad(t) ==
  /\ t \in timers
  /\ Len(inflight) < MaxInFlight
  /\ inflight' = inflight
  /\ UNCHANGED <<dash, timers, nextTimer, lifecycle>>
  /\ UNCHANGED <<storeVars, call>>

\* The callback of setInterval(..., 2000) for the active timer t.
Tick(t) ==
  /\ t \in timers
  /\ Len(inflight) < MaxInFlight
  /\ inflight' = LoadData(inflight)
  /\ UNCHANGED <<dash, timers, nextTimer, lifecycle>>
  /\ UNCHANGED <<storeVars, call>>

\* An ngOnDestroy that leaves the timer running.
NgOnDestroyNoClear ==
  /\ timers' = timers
  /\ lifecycle' = "destroyed"
  /\ UNCHANGED <<dash, nextTimer, inflight>>
  /\ UNCHANGED <<storeVars, call>>

\* ngOnDestroy()
NgOnDestroy ==
  /\ timers' = IF dash.refreshInterval # 0 THEN timers \ {dash.refreshInterval} ELSE timers
  /\ lifecycle' = "destroyed"
  /\ UNCHANGED <<dash, nextTimer, inflight>>
  /\ UNCHANGED <<storeVars, call>>

\* app.get('/api/simulations') answering the i-th fetch in flight.
ServeFetch(i) ==
  /\ i \in 1..Len(inflight)
  /\ inflight[i].phase = "sent"
  /\ inflight' = [inflight EXCEPT ![i].phase = "answered",
                                  ![i].data = GetResponse(simulations)]
  /\ UNCHANGED <<dash, timers, nextTimer, lifecycle>>
  /\ UNCHANGED <<storeVars, call>>

\* The i-th fetch is answered 2xx with an empty body: HttpClient delivers null.
ServeEmptyBody(i) ==
  /\ i \in 1..Len(inflight)
  /\ inflight[i].phase = "sent"
  /\ inflight' = [inflight EXCEPT ![i].phase = "answered", ![i].isNull = TRUE]
  /\ UNCHANGED <<dash, timers, nextTimer, lifecycle>>
  /\ UNCHANGED <<storeVars, call>>

\* The fetches in flight once the i-th has been delivered to next: the ones
\* issued before it have been overtaken.
AfterDelivery(queue, i) ==
  RemoveAt([j \in 1..Len(queue) |->
              IF j < i THEN [queue[j] EXCEPT !.overtaken = TRUE] ELSE queue[j]], i)

\* A next callback that patches the working set instead of replacing it.
DeliverNextPatch(i) ==
  /\ i \in 1..Len(inflight)
  /\ inflight[i].phase = "answered"
  /\ inflight' = AfterDelivery(inflight, i)
  /\ LET data == inflight[i].data
         environments == IF inflight[i].isNull THEN <<>> ELSE dash.environments \o data
     IN  dash' = CalculateStatistics(PrepareChartData(
                   [dash EXCEPT !.environments = environments]))
  /\ UNCHANGED <<timers, nextTimer, lifecycle>>
  /\ UNCHANGED <<storeVars, call>>

\* loadData: the next callback, run with the response of the i-th fetch.
DeliverNext(i) ==
  /\ i \in 1..Len(inflight)
  /\ inflight[i].phase = "answered"
  /\ inflight' = AfterDelivery(inflight, i)
  /\ LET data == inflight[i].data
         environments == IF inflight[i].isNull THEN <<>> ELSE data
     IN  dash' = CalculateStatistics(PrepareChartData(
                   [dash EXCEPT !.environments = environments]))
  /\ UNCHANGED <<timers, nextTimer, lifecycle>>
  /\ UNCHANGED <<storeVars, call>>

\* loadData: the error callback, run when the i-th fetch fails.
DeliverError(i) ==
  /\ i \in 1..Len(inflight)
  /\ inflight' = RemoveAt(inflight, i)
  /\ dash' = CalculateStatistics(PrepareChartData(
               [dash EXCEPT !.environments = <<>>]))
  /\ UNCHANGED <<timers, nextTimer, lifecycle>>
  /\ UNCHANGED <<storeVars, call>>

otherVars == <<timers, nextTimer, inflight, lifecycle>>

\* A caller (the template, a unit test) runs prepareChartData().
CallPrepareChartData ==
  /\ dash' = PrepareChartData(dash)
  /\ call' = [fn |-> "prepareChartData", arg |-> <<>>,
              result |-> IF HasNull(dash.environments) THEN "TypeError" ELSE "undefined"]
  /\ UNCHANGED <<storeVars, otherVars>>

\* A caller runs calculateStatistics().
CallCalculateStatistics ==
  /\ dash' = CalculateStatistics(dash)
  /\ call' = [fn |-> "calculateStatistics", arg |-> <<>>,
              result |-> IF HasNull(dash.environments) THEN "TypeError" ELSE "undefined"]
  /\ UNCHANGED <<storeVars, otherVars>>

\* A caller runs calculateAdvancedStatistics().
CallCalculateAdvancedStatistics ==
  /\ dash' = CalculateAdvancedStatistics(dash)
  /\ call' = [fn |-> "calculateAdvancedStatistics", arg |-> <<>>,
              result |-> IF HasNull(dash.environments) THEN "TypeError" ELSE "undefined"]
  /\ UNCHANGED <<storeVars, otherVars>>

\* A caller evaluates getSafetyScore(env).
CallGetSafetyScore(env) ==
  /\ call' = [fn |-> "getSafetyScore", arg |-> env, result |-> GetSafetyScore(env)]
  /\ UNCHANGED <<storeVars, dash, otherVars>>

\* A caller evaluates calculateGradeLevel(safetyRate).
CallCalculateGradeLevel(safetyRate) ==
  /\ call' = [fn |-> "calculateGradeLevel", arg |-> safetyRate,
              result |-> CalculateGradeLevel(safetyRate)]
  /\ UNCHANGED <<storeVars, dash, otherVars>>

\* A caller evaluates getGradeValue(grade).
CallGetGradeValue(grade) ==
  /\ call' = [fn |-> "getGradeValue", arg |-> grade, result |-> GetGradeValue(grade)]
  /\ UNCHANGED <<storeVars, dash, otherVars>>

\* A caller evaluates getGradeColor(grade).
CallGetGradeColor(grade) ==
  /\ call' = [fn |-> "getGradeColor", arg |-> grade, result |-> GetGradeColor(grade)]
  /\ UNCHANGED <<storeVars, dash, otherVars>>

(***************************************************************************)
(* The requests of the API client.                                         *)
(***************************************************************************)
Names == {"A", "B"}

NameOpts == {Empty} \cup {("name" :> n) : n \in Names}
\* What a body holds besides its name: nothing, counts without speedStats,
\* empty speedStats without counts, or counts and speedStats.
Payloads ==
  {Empty,
   ("collisions" :> 1) @@ ("safeRuns" :> 3),
   ("speedStats" :> Empty),
   ("collisions" :> 1) @@ ("safeRuns" :> 3)
     @@ ("speedStats" :> (("mean" :> Num(2)) @@ ("variance" :> Num(1))))}

\* The bodies posted to the store alone.
StoreBodies == {n @@ x : n \in NameOpts, x \in Payloads}

\* The bodies posted while the dashboard polls: a record with frames and a
\* record of another name without totalFrames.
DashBodies ==
  { ("name" :> "A") @@ ("collisions" :> 1) @@ ("safeRuns" :> 3) @@ ("totalFrames" :> 2)
      @@ ("speedStats" :> (("mean" :> Num(2)) @@ ("variance" :> Num(1)))),
    ("name" :> "B") @@ ("collisions" :> 2) @@ ("safeRuns" :> 2)
      @@ ("speedStats" :> (("mean" :> Num(4)) @@ ("variance" :> Zero))) }

\* The bodies posted while a write can fail: the two records above and a
\* record without speedStats.
FaultBodies == DashBodies \cup {("name" :> "A") @@ ("collisions" :> 1)}

(***************************************************************************)
(* The inputs of the component's methods.                                  *)
(***************************************************************************)
Stat(mean, variance) == ("mean" :> mean) @@ ("variance" :> variance)
MeanOnly(mean) == "mean" :> mean

\* The two environments of the calculateAdvancedStatistics tests.
Env1 ==
  ("name" :> "Env1") @@ ("totalFrames" :> 1000) @@ ("avgFPS" :> Num(30))
    @@ ("speedStats" :> Stat(Num(5), Num(1)))
    @@ ("steeringStats" :> Stat(Rat(1, 10), Rat(1, 100)))
    @@ ("processingStats" :>
          (("vision" :> MeanOnly(Rat(1, 10))) @@ ("audio" :> MeanOnly(Rat(1, 5)))
             @@ ("llm" :> MeanOnly(Rat(3, 10))) @@ ("total" :> MeanOnly(Rat(3, 5)))))

Env2 ==
  ("name" :> "Env2") @@ ("totalFrames" :> 500) @@ ("avgFPS" :> Num(25))
    @@ ("speedStats" :> Stat(Num(6), Rat(3, 2)))
    @@ ("steeringStats" :> Stat(Rat(1, 5), Rat(1, 50)))
    @@ ("processingStats" :>
          (("vision" :> MeanOnly(Rat(3, 20))) @@ ("audio" :> MeanOnly(Rat(1, 4)))
             @@ ("llm" :> MeanOnly(Rat(7, 20))) @@ ("total" :> MeanOnly(Rat(3, 4)))))

\* Env2 with as many frames as Env1, and without steering and stage timings.
Env3 ==
  ("name" :> "Env3") @@ ("totalFrames" :> 1000) @@ ("avgFPS" :> Num(25))
    @@ ("speedStats" :> Stat(Num(6), Rat(3, 2)))

\* The first environment of the prepareChartData tests.
ChartEnv ==
  ("name" :> "Env1") @@ ("collisions" :> 2) @@ ("safeRuns" :> 98) @@ ("gradeLevel" :> "A")
    @@ ("speedStats" :> MeanOnly(Num(5))) @@ ("steeringStats" :> MeanOnly(Rat(1, 10)))

\* An environment driven backwards while steering left: negative means, a
\* negative and a zero stage timing, the other stages not measured.
ReverseEnv ==
  ("name" :> "Reverse") @@ ("totalFrames" :> 1000)
    @@ ("speedStats" :> Stat(Num(0 - 5), Num(1)))
    @@ ("steeringStats" :> Stat(Rat(0 - 1, 10), Rat(1, 100)))
    @@ ("processingStats" :>
          (("vision" :> MeanOnly(Rat(0 - 1, 10))) @@ ("audio" :> MeanOnly(Zero))))

\* The records of the calculateStatistics tests and of the edge-case tests,
\* and a record without any field.
TestEnvs ==
  {Env1, Env2, Env3, ChartEnv, ReverseEnv,
   ("collisions" :> 5) @@ ("safeRuns" :> 95),
   ("collisions" :> 3) @@ ("safeRuns" :> 97),
   ("collisions" :> (0 - 5)) @@ ("safeRuns" :> 95),
   Empty}

\* The arrays assigned to component.environments.
EnvArrays == UNION {[1..n -> TestEnvs] : n \in 0..MaxEnvs}

\* The arrays of the edge-case test [null, undefined, {name: 'Valid'}]: up to
\* MaxEnvs + 1 elements, each null / undefined, a record with a name only, or
\* a full record.
MalformedArrays ==
  UNION {[1..n -> {NullEnv, "name" :> "Valid", Env1}] : n \in 0..(MaxEnvs + 1)}

\* The records passed to getSafetyScore: each count absent or in 0..MaxCount.
CountOpts(k) == {Empty} \cup {(k :> n) : n \in 0..MaxCount}
ScoreEnvs == {c @@ r : c \in CountOpts("collisions"), r \in CountOpts("safeRuns")}
               \cup TestEnvs

\* The rates passed to calculateGradeLevel: the multiples of 1/2 from
\* 100 - MaxRate to MaxRate.
Rates == {Rat(k, 2) : k \in (2 * (100 - MaxRate))..(2 * MaxRate)}

\* The strings passed to the grade lookups: the grades, other labels and the
\* names of the members of Object.prototype.
GradeStrings ==
  DOMAIN GradeMap \cup {"", "X", "N/A", "a+", "E", "Unknown"} \cup ObjectPrototypeKeys

(***************************************************************************)
(* Specifications.                                                         *)
(***************************************************************************)
Init ==
  /\ simulations = <<>>
  /\ resp = NoResp
  /\ firstSeen = <<>>
  /\ postedOk = {}
  /\ clearedKeys = {}
  /\ dash = NewComponent
  /\ timers = {}
  /\ nextTimer = 1
  /\ inflight = <<>>
  /\ lifecycle = "created"
  /\ call = NoCall

\* The store and its API client.
NextStore ==
  \/ \E b \in StoreBodies : Post(b)
  \/ Get
  \/ Delete

SpecStore == Init /\ [][NextStore]_vars

\* The store when a write of the handler's debug files can fail.
NextStoreFaults ==
  \/ \E b \in FaultBodies : Post(b)
  \/ \E b \in FaultBodies, file \in UnguardedFiles : PostWriteFails(b, file)
  \/ Get
  \/ Delete

SpecStoreFaults == Init /\ [][NextStoreFaults]_vars

\* The store filled by the simulation runs while one dashboard component polls
\* it, in its Angular life (ngOnInit at most once).
Next ==
  \/ \E b \in DashBodies : Post(b)
  \/ (lifecycle = "created" /\ NgOnInit)
  \/ NgOnDestroy
  \/ \E t \in timers : Tick(t)
  \/ \E i \in 1..MaxInFlight : ServeFetch(i)
  \/ \E i \in 1..MaxInFlight : ServeEmptyBody(i)
  \/ \E i \in 1..MaxInFlight : DeliverNext(i)
  \/ \E i \in 1..MaxInFlight : DeliverError(i)

Spec == Init /\ [][Next]_vars

\* The polling dashboard when every fetch completes successfully: no request
\* fails and no body is empty.
NextLive ==
  \/ \E b \in DashBodies : Post(b)
  \/ (lifecycle = "created" /\ NgOnInit)
  \/ NgOnDestroy
  \/ \E t \in timers : Tick(t)
  \/ \E i \in 1..MaxInFlight : ServeFetch(i)
  \/ \E i \in 1..MaxInFlight : DeliverNext(i)

\* The i-th fetch in flight waits for the server's answer.
Sent(i) == i \in 1..Len(inflight) /\ inflight[i].phase = "sent"

\* The i-th fetch in flight has been answered and waits for its delivery.
Answered(i) == i \in 1..Len(inflight) /\ inflight[i].phase = "answered"

\* setInterval fires its callback again and again while the timer is active;
\* the server answers every request it has received and HttpClient delivers
\* every answer it has received.  The last two are WF_vars(ServeFetch(i)) and
\* WF_vars(DeliverNext(i)) written out as []<>~ENABLED \/ []<><<A>>_vars:
\* either action changes inflight whenever it can be taken, so it is enabled
\* exactly when Sent(i), respectively Answered(i), holds.
Fairness ==
  /\ WF_vars(\E t \in timers : Tick(t))
  /\ \A i \in 1..MaxInFlight : []<>~Sent(i) \/ []<><<ServeFetch(i)>>_vars
  /\ \A i \in 1..MaxInFlight : []<>~Answered(i) \/ []<><<DeliverNext(i)>>_vars

SpecLive == Init /\ [][NextLive]_vars /\ Fairness

\* One component whose ngOnInit and ngOnDestroy are called in any order, any
\* number of times (the lifecycle tests call them directly), over a store
\* that is not written.
NextLifecycle ==
  \/ (nextTimer <= MaxTimers /\ NgOnInit)
  \/ NgOnDestroy
  \/ \E t \in timers : Tick(t)
  \/ \E i \in 1..MaxInFlight : ServeFetch(i)
  \/ \E i \in 1..MaxInFlight : DeliverNext(i)

SpecLifecycle == Init /\ [][NextLifecycle]_vars

\* A component whose environments are set directly, as the unit tests do,
\* before its aggregation methods are called.
InitStats ==
  /\ simulations = <<>>
  /\ resp = NoResp
  /\ firstSeen = <<>>
  /\ postedOk = {}
  /\ clearedKeys = {}
  /\ \E envs \in EnvArrays : dash = [NewComponent EXCEPT !.environments = envs]
  /\ timers = {}
  /\ nextTimer = 1
  /\ inflight = <<>>
  /\ lifecycle = "created"
  /\ call = NoCall

NextStats ==
  \/ CallPrepareChartData
  \/ CallCalculateStatistics

SpecStats == InitStats /\ [][NextStats]_vars

\* A component whose environments may hold null or undefined elements.
InitMalformed ==
  /\ simulations = <<>>
  /\ resp = NoResp
  /\ firstSeen = <<>>
  /\ postedOk = {}
  /\ clearedKeys = {}
  /\ \E envs \in MalformedArrays : dash = [NewComponent EXCEPT !.environments = envs]
  /\ timers = {}
  /\ nextTimer = 1
  /\ inflight = <<>>
  /\ lifecycle = "created"
  /\ call = NoCall

NextMalformed ==
  \/ CallPrepareChartData
  \/ CallCalculateStatistics
  \/ CallCalculateAdvancedStatistics

SpecMalformed == InitMalformed /\ [][NextMalformed]_vars

\* The value-returning methods of the component, called on their own.
NextCalls ==
  \/ \E env \in ScoreEnvs : CallGetSafetyScore(env)
  \/ \E safetyRate \in Rates : CallCalculateGradeLevel(safetyRate)
  \/ \E grade \in GradeStrings : CallGetGradeValue(grade)
  \/ \E grade \in GradeStrings : CallGetGradeColor(grade)

SpecCalls == Init /\ [][NextCalls]_vars

(***************************************************************************)
(* Properties of the store (checked under SpecStore).                      *)
(***************************************************************************)
\* The records that GET returns for the key of record b.
Returned(sims, b) ==
  LET got == GetResponse(sims)
  IN  {i \in 1..Len(got) : KeyOf(got[i]) = KeyOf(b)}

\* C1: after a POST of a record r with name n is answered 200, GET returns
\* exactly one record with name n and it equals r in every field, nested
\* fields included: nothing of an earlier record with that name is kept.
C1_PostThenGetReturnsRecord ==
  [][\A b \in StoreBodies :
       (Has(b, "name") /\ Post(b) /\ resp'.status = 200) =>
          /\ Cardinality(Returned(simulations', b)) = 1
          /\ \A i \in Returned(simulations', b) : GetResponse(simulations')[i] = b]_vars

\* A record with a name took the place of an earlier record with that name, and
\* it has fewer fields than records with that name can have.
C1_Witness ==
  /\ resp.op = "POST" /\ resp.message = "Simulation updated"
  /\ \E i \in 1..Len(simulations) :
        LET r == GetResponse(simulations)[i]
        IN  /\ <<r>> = resp.data
            /\ Has(r, "name") /\ ~Has(r, "collisions") /\ r.speedStats = Empty

C3_ArrivalOrder ==
  /\ [](LET got == GetResponse(simulations)
        IN  [i \in 1..Len(got) |-> KeyOf(got[i])] = firstSeen)
  /\ [][\A b \in StoreBodies :
          Post(b) =>
            LET existingIndex == FindIndex(simulations, b)
            IN  IF resp'.status # 200 THEN simulations' = simulations
                ELSE IF existingIndex >= 0
                THEN /\ Len(simulations') = Len(simulations)
                     /\ simulations'[existingIndex + 1] = JSONStringify(b)
                     /\ \A j \in 1..Len(simulations) :
                           j # existingIndex + 1 => simulations'[j] = simulations[j]
                ELSE simulations' = Append(simulations, JSONStringify(b))]_vars

\* The record stored first has just been overwritten while another one follows it.
C3_Witness ==
  /\ Len(simulations) = 2
  /\ resp.op = "POST" /\ resp.message = "Simulation updated"
  /\ resp.data = <<JSONParse(simulations[1])>>
  /\ KeyOf(JSONParse(simulations[2])) # KeyOf(JSONParse(simulations[1]))

\* C4: the POST handler never raises: every posted record, also one without
\* speedStats, gets a normal response.
C4_PostNeverRaises == resp.op = "POST" => resp.status = 200

\* C5: a record without a name is dropped: posting it leaves the stored array
\* as it was, and the dashboard shows no entry without a name for what GET returns.
C5_NamelessDropped ==
  /\ [][\A b \in StoreBodies :
          (~Has(b, "name") /\ Post(b)) => simulations' = simulations]_vars
  /\ [](LET shown == PrepareChartData(
                       [NewComponent EXCEPT !.environments = GetResponse(simulations)])
        IN  \A i \in 1..Len(shown.barChartData) : shown.barChartData[i].name # "Unknown")

\* C6: DELETE empties the store, the next GET returns the empty array, and the
\* first POST stored after the DELETE, for a name that the DELETE removed, is
\* added as a new record at index 0.
C6_DeleteEmpties ==
  /\ [](resp.op = "DELETE" => simulations = <<>>)
  /\ [][(resp.op = "DELETE" /\ Get) => resp'.data = <<>>]_vars
  /\ [][\A b \in StoreBodies :
          (resp.op = "DELETE" /\ KeyOf(b) \in clearedKeys /\ Post(b) /\ resp'.status = 200) =>
             /\ simulations' = <<JSONStringify(b)>>
             /\ resp'.message = "Simulation added"]_vars

\* A name that the last DELETE removed has been posted again and is the only record.
C6_Witness ==
  /\ resp.op = "POST" /\ resp.message = "Simulation added"
  /\ Len(simulations) = 1
  /\ KeyOf(JSONParse(simulations[1])) \in clearedKeys
  /\ Cardinality(clearedKeys) = 2

(***************************************************************************)
(* Properties of the dashboard (checked under Spec).                       *)
(***************************************************************************)
\* C7: a successful fetch is a full replace: right after the next callback has
\* run with array d, environments is d ([] when d is null), whatever it was
\* before, and the chart arrays list the records of d.
C7_FullReplace ==
  [][\A i \in 1..MaxInFlight :
       DeliverNext(i) =>
         LET d == IF inflight[i].isNull THEN <<>> ELSE inflight[i].data
         IN  /\ dash'.environments = d
             /\ [j \in 1..Len(dash'.barChartData) |-> dash'.barChartData[j].name]
                   = [j \in 1..Len(d) |-> EnvName(d[j])]]_vars

\* The dashboard holds the store's content of an earlier moment, a single record,
\* while the store holds two.
C7_Witness ==
  /\ Len(dash.environments) = 1
  /\ Len(simulations) = 2
  /\ dash.barChartData = <<[name |-> "B", value |-> 2]>>

\* C8: the response of a fetch that a later-issued fetch has overtaken is not
\* applied out of order: when the dashboard shows the store's present content
\* and the store's answer to an overtaken fetch arrives, environments stays
\* as it is (the dashboard never goes back from a newer store state to an older).
C8_NoStaleOverwrite ==
  [][\A i \in 1..MaxInFlight :
       (/\ DeliverNext(i)
        /\ inflight[i].overtaken /\ ~inflight[i].isNull
        /\ dash.environments = GetResponse(simulations)) =>
          dash'.environments = dash.environments]_vars

\* C9: after ngOnDestroy no timer of the component is active and no further
\* fetch is issued; ngOnDestroy without a handle, and a second ngOnDestroy,
\* complete and change nothing.
C9_TeardownStopsPolling ==
  /\ [](lifecycle = "destroyed" => timers = {})
  /\ [][lifecycle = "destroyed" => Len(inflight') <= Len(inflight)]_vars
  /\ [][(NgOnDestroy /\ (dash.refreshInterval = 0 \/ lifecycle = "destroyed")) =>
          UNCHANGED <<dash, timers, inflight>>]_vars

\* The component started its timer and was destroyed while a fetch was in flight.
C9_Witness ==
  /\ lifecycle = "destroyed"
  /\ dash.refreshInterval # 0
  /\ inflight # <<>>

\* C10: after the error callback the dashboard holds the all-zero / empty
\* snapshot, whatever it displayed before.
C10_ErrorGivesEmptySnapshot ==
  [][\A i \in 1..MaxInFlight :
       DeliverError(i) =>
         /\ dash'.environments = <<>>
         /\ dash'.barChartData = <<>> /\ dash'.envStackedData = <<>>
         /\ dash'.envSafetyScoreData = <<>> /\ dash'.envTotalRunsData = <<>>
         /\ dash'.gradeLevelData = <<>> /\ dash'.avgSpeedData = <<>>
         /\ dash'.processingTimeData = <<>> /\ dash'.speedVarianceData = <<>>
         /\ dash'.steeringVarianceData = <<>> /\ dash'.fpsData = <<>>
         /\ dash'.totalCollisions = 0 /\ dash'.totalSafeRuns = 0
         /\ dash'.totalSimulations = 0 /\ dash'.overallSafetyRate = Zero
         /\ dash'.overallSpeedStats = Empty /\ dash'.overallSteeringStats = Empty
         /\ dash'.overallProcessingStats = Empty
         /\ dash'.overallFPS = Zero /\ dash'.overallSpeedCV = Zero
         /\ dash'.overallSteeringCV = Zero]_vars

\* C11: whenever the frames of the current environments add up to 0, the
\* overall speed and steering statistics are the empty structure, whatever
\* an earlier refresh computed.
C11_NoFramesNoOverallStats ==
  TotalFrames(dash.environments) = 0 =>
    /\ dash.overallSpeedStats = Empty
    /\ dash.overallSteeringStats = Empty

(***************************************************************************)
(* Properties of the aggregation (checked under SpecStats).                *)
(***************************************************************************)
\* C12: running prepareChartData and calculateStatistics a second time on
\* the same environments changes nothing: totals, rate, grade, pooled
\* statistics and chart arrays are what the first run left.
C12_AggregationIdempotent ==
  LET once == CalculateStatistics(PrepareChartData(dash))
  IN  CalculateStatistics(PrepareChartData(once)) = once

\* Both methods have run on an array with frames, and a further run leaves
\* the component as it is.
C12_Witness ==
  /\ call.fn = "calculateStatistics"
  /\ dash.environments = <<Env1, Env2>>
  /\ Len(dash.barChartData) = 2
  /\ dash.overallSpeedStats # Empty
  /\ CalculateStatistics(PrepareChartData(dash)) = dash

\* The sum of the counts k of the records, an absent count adding 0.
RECURSIVE SumCounts(_, _)
SumCounts(envs, k) ==
  IF envs = <<>> THEN 0
  ELSE (IF k \in DOMAIN Head(envs) THEN Head(envs)[k] ELSE 0) + SumCounts(Tail(envs), k)

\* C13: after calculateStatistics the totals are the plain sums of the counts
\* (absent adds 0, negative counts are added as they are), totalSimulations is
\* their sum, the rate is 100 * totalSafeRuns / totalSimulations when
\* totalSimulations > 0 and 0 otherwise, and the grade is
\* calculateGradeLevel(rate); (5,95),(3,97) gives 8, 192, 200, 96 and A+.
C13_TotalsArePlainSums ==
  call.fn = "calculateStatistics" =>
    LET envs == dash.environments
        collisions == SumCounts(envs, "collisions")
        safeRuns == SumCounts(envs, "safeRuns")
    IN  /\ dash.totalCollisions = collisions
        /\ dash.totalSafeRuns = safeRuns
        /\ dash.totalSimulations = collisions + safeRuns
        /\ dash.overallSafetyRate =
             IF collisions + safeRuns > 0
             THEN Rat(100 * safeRuns, collisions + safeRuns) ELSE Zero
        /\ dash.overallGradeLevel = CalculateGradeLevel(dash.overallSafetyRate)
        /\ envs = <<("collisions" :> 5) @@ ("safeRuns" :> 95),
                    ("collisions" :> 3) @@ ("safeRuns" :> 97)>> =>
             /\ dash.totalCollisions = 8 /\ dash.totalSafeRuns = 192
             /\ dash.totalSimulations = 200 /\ dash.overallSafetyRate = Num(96)
             /\ dash.overallGradeLevel = "A+"

\* calculateStatistics has run on a record with a negative count and a record
\* without counts.
C13_Witness ==
  /\ call.fn = "calculateStatistics"
  /\ dash.environments = <<("collisions" :> (0 - 5)) @@ ("safeRuns" :> 95), Empty>>
  /\ dash.totalCollisions = 0 - 5
  /\ dash.totalSimulations = 90

\* safetyRate lies in [0, 100]
IsPercentage(safetyRate) ==
  /\ safetyRate.d > 0
  /\ ~safetyRate.root
  /\ safetyRate.n >= 0
  /\ safetyRate.n <= 100 * safetyRate.d

\* No record holds a negative count.
CountsNonNegative(envs) ==
  \A i \in 1..Len(envs) :
    \A k \in {"collisions", "safeRuns"} : k \in DOMAIN envs[i] => envs[i][k] >= 0

\* C14 as stated: after calculateStatistics on any environments array the
\* rate lies in [0, 100], and it is 0 when totalSimulations is 0.
C14_RateIsPercentage ==
  call.fn = "calculateStatistics" =>
    /\ IsPercentage(dash.overallSafetyRate)
    /\ dash.totalSimulations = 0 => dash.overallSafetyRate = Zero

\* C14, amended: after calculateStatistics on an environments array without
\* negative counts the rate lies in [0, 100], and it is 0 when
\* totalSimulations is 0.
C14_RateIsPercentageOfCounts ==
  (call.fn = "calculateStatistics" /\ CountsNonNegative(dash.environments)) =>
    /\ IsPercentage(dash.overallSafetyRate)
    /\ dash.totalSimulations = 0 => dash.overallSafetyRate = Zero

\* calculateStatistics has run on counts that give a rate strictly inside
\* the range.
C14_Witness ==
  /\ call.fn = "calculateStatistics"
  /\ CountsNonNegative(dash.environments)
  /\ dash.totalSimulations > 0
  /\ dash.overallSafetyRate = Num(95)

(***************************************************************************)
(* Properties of the value-returning methods (checked under SpecCalls).    *)
(***************************************************************************)
\* C15: for a record with non-negative counts, an absent count taken as 0,
\* getSafetyScore returns an integer in [0, 100]: the integer nearest to
\* 100 * safeRuns / (collisions + safeRuns), and 0 when collisions + safeRuns
\* is 0; it never returns NaN.
C15_SafetyScoreIsRoundedPercentage ==
  (call.fn = "getSafetyScore" /\ CountsNonNegative(<<call.arg>>)) =>
    LET collisions == SumCounts(<<call.arg>>, "collisions")
        safeRuns == SumCounts(<<call.arg>>, "safeRuns")
        total == collisions + safeRuns
        score == call.result
    IN  /\ score.d = 1 /\ ~score.root
        /\ score.n >= 0 /\ score.n <= 100
        /\ total = 0 => score.n = 0
        /\ total > 0 => 2 * Abs(100 * safeRuns - score.n * total) <= total

\* C16: calculateGradeLevel(r) is A+ for r >= 95, A for 90 <= r < 95, B+ for
\* 85 <= r < 90, B for 80 <= r < 85, C+ for 75 <= r < 80, C for 70 <= r < 75,
\* D+ for 65 <= r < 70, D for 60 <= r < 65 and F for r < 60.
C16_GradeLadder ==
  call.fn = "calculateGradeLevel" =>
    LET r == call.arg
        grade == call.result
        Within(lo, hi) == r.n >= lo * r.d /\ r.n < hi * r.d
    IN  /\ grade = "A+" <=> r.n >= 95 * r.d
        /\ grade = "A" <=> Within(90, 95)
        /\ grade = "B+" <=> Within(85, 90)
        /\ grade = "B" <=> Within(80, 85)
        /\ grade = "C+" <=> Within(75, 80)
        /\ grade = "C" <=> Within(70, 75)
        /\ grade = "D+" <=> Within(65, 70)
        /\ grade = "D" <=> Within(60, 65)
        /\ grade = "F" <=> r.n < 60 * r.d

\* calculateGradeLevel was called with a rate that is exactly a threshold.
C16_Witness ==
  /\ call.fn = "calculateGradeLevel"
  /\ call.arg = Num(95)
  /\ call.result = "A+"

\* C17: of two successive calls of calculateGradeLevel, the one with the
\* higher rate returns a grade whose getGradeValue is at least the other's.
C17_GradingMonotone ==
  [][(/\ call.fn = "calculateGradeLevel"
      /\ call'.fn = "calculateGradeLevel"
      /\ call'.arg.n * call.arg.d >= call.arg.n * call'.arg.d) =>
       /\ GetGradeValue(call'.result).type = "number"
       /\ GetGradeValue(call'.result).value >= GetGradeValue(call.result).value]_vars

\* calculateGradeLevel was called with a rate between two thresholds, and
\* the grade has its value.
C17_Witness ==
  /\ call.fn = "calculateGradeLevel"
  /\ call.arg = Rat(179, 2)
  /\ GetGradeValue(call.result) = JSNumber(87)

\* C18: getGradeValue returns 97, 92, 87, 82, 77, 72, 67, 62, 30 for the nine
\* grades and the number 30 for every other string; getGradeColor returns the
\* color of each grade and '#6b7280' for every other string.
C18_GradeLookupsTotal ==
  LET grade == call.arg
  IN  /\ call.fn = "getGradeValue" =>
           call.result =
             JSNumber(CASE grade = "A+" -> 97 [] grade = "A" -> 92 [] grade = "B+" -> 87
                        [] grade = "B" -> 82 [] grade = "C+" -> 77 [] grade = "C" -> 72
                        [] grade = "D+" -> 67 [] grade = "D" -> 62 [] OTHER -> 30)
      /\ call.fn = "getGradeColor" =>
           call.result =
             JSString(CASE grade = "A+" -> "#22c55e" [] grade = "A" -> "#34d399"
                        [] grade = "B+" -> "#60a5fa" [] grade = "B" -> "#3b82f6"
                        [] grade = "C+" -> "#fbbf24" [] grade = "C" -> "#f59e0b"
                        [] grade = "D+" -> "#f97316" [] grade = "D" -> "#ef4444"
                        [] grade = "F" -> "#dc2626" [] OTHER -> "#6b7280")

(***************************************************************************)
(* Properties of the overall statistics (checked under SpecStats).         *)
(***************************************************************************)
\* The real at the path of keys in obj, 0 when a key of the path is absent.
RECURSIVE Field(_, _)
Field(obj, path) ==
  IF path = <<>> THEN obj
  ELSE IF Head(path) \in DOMAIN obj THEN Field(obj[Head(path)], Tail(path))
  ELSE Zero

\* The sum over the records of totalFrames * (the real at the path).
RECURSIVE FrameWeightedSum(_, _)
FrameWeightedSum(envs, path) ==
  IF envs = <<>> THEN Zero
  ELSE RAdd(RMul(Num(SumCounts(<<Head(envs)>>, "totalFrames")), Field(Head(envs), path)),
            FrameWeightedSum(Tail(envs), path))

\* The overall mean that the component holds for the statistic at the path.
OverallMean(c, path) ==
  IF path = <<"speedStats", "mean">> THEN c.overallSpeedStats.mean
  ELSE IF path = <<"steeringStats", "mean">> THEN c.overallSteeringStats.mean
  ELSE IF path = <<"avgFPS">> THEN c.overallFPS
  ELSE c.overallProcessingStats[path[2]].mean

MeanPaths ==
  {<<"speedStats", "mean">>, <<"steeringStats", "mean">>, <<"avgFPS">>}
    \cup {<<"processingStats", stage, "mean">> : stage \in {"vision", "audio", "llm", "total"}}

RECURSIVE PooledSum(_, _, _, _)
PooledSum(envs, stat, overallMean, totalFrames) ==
  IF envs = <<>> THEN Zero
  ELSE LET env == Head(envs)
           diff == RSub(Field(env, <<stat, "mean">>), overallMean)
       IN  RAdd(RMul(Rat(SumCounts(<<env>>, "totalFrames"), totalFrames),
                     RAdd(Field(env, <<stat, "variance">>), RMul(diff, diff))),
                PooledSum(Tail(envs), stat, overallMean, totalFrames))

\* std is the non-negative square root of variance.
IsSqrtOf(std, variance) ==
  /\ std.d > 0
  /\ std.n >= 0
  /\ IF std.root THEN std.n = variance.n /\ std.d = variance.d
     ELSE RMul(std, std) = variance

\* C20: when the frames add up to more than 0, the overall speed and steering
\* variance is the pooled variance sum_i (totalFrames_i / totalFrames) *
\* (variance_i + (mean_i - overall_mean)^2) and std is its square root; for
\* A(5, 1, 1000) and B(6, 1.5, 500) the mean is 16/3 and the variance is
\* (2/3) * (1 + 1/9) + (1/3) * (1.5 + 4/9), which is not the average 1.25 of
\* the two variances.
C20_PooledVariance ==
  (call.fn = "calculateStatistics" /\ SumCounts(dash.environments, "totalFrames") > 0) =>
    LET envs == dash.environments
        totalFrames == SumCounts(envs, "totalFrames")
        speed == dash.overallSpeedStats
        steering == dash.overallSteeringStats
    IN  /\ speed.variance = PooledSum(envs, "speedStats", speed.mean, totalFrames)
        /\ steering.variance = PooledSum(envs, "steeringStats", steering.mean, totalFrames)
        /\ IsSqrtOf(speed.std, speed.variance)
        /\ IsSqrtOf(steering.std, steering.variance)
        /\ envs = <<Env1, Env2>> =>
             /\ speed.mean = Rat(16, 3)
             /\ speed.variance =
                  RAdd(RMul(Rat(2, 3), RAdd(Num(1), Rat(1, 9))),
                       RMul(Rat(1, 3), RAdd(Rat(3, 2), Rat(4, 9))))
             /\ speed.variance # Rat(5, 4)

\* calculateStatistics has run on the two environments A and B.
C20_Witness ==
  /\ call.fn = "calculateStatistics"
  /\ dash.environments = <<Env1, Env2>>
  /\ dash.overallSpeedStats.variance = Rat(25, 18)
  /\ dash.overallSpeedStats.std.root

(***************************************************************************)
(* Properties of the chart arrays (checked under SpecStats) and of the     *)
(* methods on malformed arrays (checked under SpecMalformed).              *)
(***************************************************************************)
\* C21: after prepareChartData, envSafetyScoreData holds one entry per
\* environment, in order, with the environment's name and its safety score.
C21_SafetyScoreData ==
  call.fn = "prepareChartData" =>
    /\ Len(dash.envSafetyScoreData) = Len(dash.environments)
    /\ \A i \in 1..Len(dash.environments) :
         dash.envSafetyScoreData[i] =
           [name |-> EnvName(dash.environments[i]),
            value |-> GetSafetyScore(dash.environments[i])]

\* C22: prepareChartData, calculateStatistics and calculateAdvancedStatistics
\* return without raising on every environments array, null and undefined
\* elements included.
C22_TotalOnMalformed ==
  call.fn \in {"prepareChartData", "calculateStatistics", "calculateAdvancedStatistics"} =>
    call.result # "TypeError"

\* C23: after prepareChartData, barChartData, envStackedData, envTotalRunsData
\* and gradeLevelData have one entry per environment, in order; a missing
\* name is 'Unknown', a missing count 0, a missing gradeLevel 'F' with value
\* 30; the series is [Collisions, Safe Runs] and the total is their sum.
C23_ChartArrays ==
  call.fn = "prepareChartData" =>
    LET envs == dash.environments
    IN  /\ Len(dash.barChartData) = Len(envs)
        /\ Len(dash.envStackedData) = Len(envs)
        /\ Len(dash.envTotalRunsData) = Len(envs)
        /\ Len(dash.gradeLevelData) = Len(envs)
        /\ \A i \in 1..Len(envs) :
             LET env == envs[i]
                 name == IF "name" \in DOMAIN env THEN env.name ELSE "Unknown"
                 collisions == SumCounts(<<env>>, "collisions")
                 safeRuns == SumCounts(<<env>>, "safeRuns")
             IN  /\ dash.barChartData[i] = [name |-> name, value |-> safeRuns]
                 /\ dash.envStackedData[i] =
                      [name |-> name,
                       series |-> <<[name |-> "Collisions", value |-> collisions],
                                    [name |-> "Safe Runs", value |-> safeRuns]>>]
                 /\ dash.envTotalRunsData[i] = [name |-> name, value |-> collisions + safeRuns]
                 /\ dash.gradeLevelData[i].name = name
                 /\ dash.gradeLevelData[i].label =
                      (IF "gradeLevel" \in DOMAIN env THEN env.gradeLevel ELSE "F")
                 /\ "gradeLevel" \notin DOMAIN env =>
                      dash.gradeLevelData[i].value = JSNumber(30)

\* prepareChartData has run on a full record followed by a record without
\* any field.
C23_Witness ==
  /\ call.fn = "prepareChartData"
  /\ dash.environments = <<ChartEnv, Empty>>
  /\ dash.barChartData = <<[name |-> "Env1", value |-> 98], [name |-> "Unknown", value |-> 0]>>
  /\ dash.gradeLevelData[1] = [name |-> "Env1", value |-> JSNumber(92), label |-> "A"]
  /\ dash.gradeLevelData[2] = [name |-> "Unknown", value |-> JSNumber(30), label |-> "F"]

\* The square of a real, as a rational.
Square(x) == IF x.root THEN Rat(x.n, x.d) ELSE RMul(x, x)

\* cv is the non-negative real 100 * std / m, for a divisor m > 0.
IsCV(cv, std, m) ==
  /\ cv.d > 0
  /\ cv.n >= 0
  /\ RMul(Square(cv), RMul(m, m)) = RMul(Num(10000), Square(std))

\* C24: after calculateAdvancedStatistics, overallSpeedCV is 100 * std / mean
\* when the overall speed mean is > 0 and 0 otherwise; overallSteeringCV is
\* 100 * std / |mean| when the overall steering mean is not 0 and 0 when it
\* is 0; neither is a division by zero or by a negative number.  While no
\* frame was ever counted the overall statistics have no mean and both
\* coefficients are 0.
C24_CoefficientsOfVariation ==
  call.fn = "calculateStatistics" =>
    LET speed == dash.overallSpeedStats
        steering == dash.overallSteeringStats
    IN  /\ IF "mean" \in DOMAIN speed /\ speed.mean.n > 0
           THEN IsCV(dash.overallSpeedCV, speed.std, speed.mean)
           ELSE dash.overallSpeedCV = Zero
        /\ IF "mean" \in DOMAIN steering /\ steering.mean.n # 0
           THEN IsCV(dash.overallSteeringCV, steering.std, RAbs(steering.mean))
           ELSE dash.overallSteeringCV = Zero

\* The statistics of one environment driving in reverse: the speed mean is
\* negative, so its coefficient is 0; the steering mean is -0.1 with std 0.1.
C24_Witness ==
  /\ call.fn = "calculateStatistics"
  /\ dash.environments = <<ReverseEnv>>
  /\ dash.overallSpeedStats.mean = Num(0 - 5)
  /\ dash.overallSpeedCV = Zero
  /\ dash.overallSteeringStats.mean = Rat(0 - 1, 10)
  /\ dash.overallSteeringCV = Num(100)

\* The stages of the processing pipeline with their labels, in order.
Stages ==
  <<[key |-> "vision", label |-> " - Vision"], [key |-> "audio", label |-> " - Audio"],
    [key |-> "llm", label |-> " - LLM"], [key |-> "total", label |-> " - Total"]>>

\* The (environment, stage) entries whose mean is not 0, in environment order
\* and stage order.
RECURSIVE NonZeroProcessing(_)
NonZeroProcessing(envs) ==
  IF envs = <<>> THEN <<>>
  ELSE LET env == Head(envs)
           name == IF "name" \in DOMAIN env THEN env.name ELSE "Unknown"
           entry(i) == [name |-> name \o Stages[i].label,
                        value |-> Field(env, <<"processingStats", Stages[i].key, "mean">>)]
           all == [i \in 1..Len(Stages) |-> entry(i)]
       IN  SelectSeq(all, LAMBDA item : item.value # Zero) \o NonZeroProcessing(Tail(envs))

\* C25: processingTimeData holds, in environment order and stage order Vision,
\* Audio, LLM, Total, exactly the entries whose mean is not 0: an entry is
\* left out if and only if its value is 0 or absent.
C25_ProcessingTimeNonZero ==
  call.fn = "calculateStatistics" =>
    dash.processingTimeData = NonZeroProcessing(dash.environments)

(***************************************************************************)
(* Properties of the component's timers and subscriptions.                 *)
(***************************************************************************)
\* C26: for any sequence of ngOnInit and ngOnDestroy calls on one component,
\* at most one interval timer started by the component is active, and none
\* is active after ngOnDestroy.
C26_AtMostOneTimer ==
  /\ Cardinality(timers) <= 1
  /\ lifecycle = "destroyed" => timers = {}

\* C28: after ngOnDestroy has returned the component's data never changes
\* again: the response of a fetch still in flight at teardown is not applied.
C28_NoChangeAfterDestroy ==
  [][lifecycle = "destroyed" => dash' = dash]_vars

\* C27: if the component is initialised and not destroyed, the store stops
\* changing and every issued fetch completes successfully, then eventually
\* environments equals the store's content and stays equal to it.
C27_EventuallyConsistent ==
  (<>[](lifecycle = "inited") /\ <>[][simulations' = simulations]_vars)
    => <>[](dash.environments = GetResponse(simulations))

\* The initialised dashboard shows the two records the store holds, with no
\* fetch in flight.
C27_Witness ==
  /\ lifecycle = "inited"
  /\ Len(simulations) = 2
  /\ dash.environments = GetResponse(simulations)
  /\ inflight = <<>>

(***************************************************************************)
(* Properties of a POST that fails.                                        *)
(***************************************************************************)
\* C29: a POST /api/simulations whose handler raises before responding
\* leaves the stored array unchanged: same length, same records, same order.
C29_FailedPostKeepsStore ==
  [][(resp'.op = "POST" /\ resp'.status = 500
        /\ \E b \in FaultBodies :
             Post(b) \/ \E file \in UnguardedFiles : PostWriteFails(b, file))
       => simulations' = simulations]_vars

(***************************************************************************)
(* The sign of the pooled variance.                                        *)
(***************************************************************************)
\* p <= q for two rationals.
RLeq(p, q) == p.n * q.d <= q.n * p.d

\* Every totalFrames and every speed and steering variance is >= 0 (or absent).
FramesAndVariancesNonNegative(envs) ==
  \A i \in 1..Len(envs) :
    /\ SumCounts(<<envs[i]>>, "totalFrames") >= 0
    /\ RLeq(Zero, Field(envs[i], <<"speedStats", "variance">>))
    /\ RLeq(Zero, Field(envs[i], <<"steeringStats", "variance">>))

\* The frame-weighted average of the per-environment variances of stat.
AverageOfVariances(envs, stat) ==
  RDiv(FrameWeightedSum(envs, <<stat, "variance">>), Num(SumCounts(envs, "totalFrames")))

\* C30: for an environments array with non-negative totalFrames and variances
\* whose frames add up to more than 0, the pooled speed and steering
\* variances are >= the frame-weighted average of the per-environment
\* variances, which is >= 0, and both std are non-negative numbers, never NaN.
C30_PooledVarianceNonNegative ==
  (/\ call.fn = "calculateStatistics"
   /\ SumCounts(dash.environments, "totalFrames") > 0
   /\ FramesAndVariancesNonNegative(dash.environments)) =>
    LET envs == dash.environments
        speed == dash.overallSpeedStats
        steering == dash.overallSteeringStats
    IN  /\ RLeq(Zero, AverageOfVariances(envs, "speedStats"))
        /\ RLeq(AverageOfVariances(envs, "speedStats"), speed.variance)
        /\ RLeq(Zero, AverageOfVariances(envs, "steeringStats"))
        /\ RLeq(AverageOfVariances(envs, "steeringStats"), steering.variance)
        /\ speed.std.d > 0 /\ speed.std.n >= 0
        /\ steering.std.d > 0 /\ steering.std.n >= 0

\* calculateStatistics has run on two environments of equal weight whose
\* speed means differ: the pooled speed variance 3/2 exceeds the average 5/4
\* of the two variances, and the steering variance, measured in the first
\* environment only, is pooled from 1/100 and 0.
C30_Witness ==
  /\ call.fn = "calculateStatistics"
  /\ dash.environments = <<Env1, Env3>>
  /\ AverageOfVariances(dash.environments, "speedStats") = Rat(5, 4)
  /\ dash.overallSpeedStats.variance = Rat(3, 2)
  /\ dash.overallSteeringStats.std.d > 0

====
